---- MODULE Spec2Model ----
(***************************************************************************)
(* stardust_camera_client: the frame bridge of src/main.rs.                *)
(*                                                                         *)
(* Two execution contexts share Arc<Mutex<Option<Output>>>:                *)
(*   - the tick loop (stardust_loop, a tokio task), which on every Frame   *)
(*     event of the compositor blits the shared dmatex image into the      *)
(*     window's swapchain image, submits, presents and publishes;          *)
(*   - the window context (WinitApp, the winit event loop), which creates  *)
(*     the Output in resumed() and handles window events.                  *)
(* The GPU queue, the presentation engine, the semaphore pool of the       *)
(* device, the remote (cme) swapchain and the compositor are environment:  *)
(* what they return is drawn from small sets, and every fallible call the  *)
(* code unwraps can also fail, which panics the calling context.           *)
(***************************************************************************)
EXTENDS Integers, Sequences, FiniteSets, TLC

(* ---------------------------------------------------------------- bounds *)
MaxEvents == 3      \* root events the tick loop receives
MaxResumes == 2     \* platform resume signals
MaxResizes == 1     \* window resize events

\* min_image_count: surface_capabilities.min_image_count.max(2)
MinImageCount == 2

Sizes == {<<640, 480>>, <<800, 600>>}
\* the shared images of the remote swapchain, which it hands out in turn
DmatexIds == {1, 2}

(* ------------------------------------------------------- Option<T> values *)
None == <<>>
Some(x) == <<x>>
IsSome(o) == o # <<>>
Unwrap(o) == o[1]

(* ------------------------------------------------------------------ state *)
VARIABLES
    pc,            \* stardust_loop: the statement the task is at
    frame,         \* stardust_loop: the locals of the current iteration
    output,        \* Arc<Mutex<Option<Output>>>: the value
    output_lock,   \* ... who holds the mutex: "none" | "tick"
    poisoned,      \* ... whether a holder panicked (std::sync::Mutex poisoning)
    wpc,           \* WinitApp: "idle" | "install" | "exited" | "panicked"
    pending,       \* WinitApp::resumed: the Output built, not yet installed
    windows,       \* per window created so far: its inner size, None once destroyed
    resizes,       \* resize events delivered
    pool,          \* device semaphore pool: the free handles
    sem,           \* per semaphore handle: signals and waits of its current use
    busy,          \* semaphores with an operation still outstanding
    acquired,      \* local swapchain: the image acquired and not yet presented
    queue,         \* the operations handed to the queue and not yet complete
    material,      \* panel "diffuse" material parameter
    draw,          \* camera.request_draw argument
    acks,          \* Ping responses sent
    received,      \* root events received, by kind
    calls          \* calls made by the tick loop, by operation

tickVars == <<pc, frame>>
lockVars == <<output, output_lock, poisoned>>
winVars == <<wpc, pending, windows, resizes>>
semVars == <<pool, sem, busy>>
gpuVars == <<acquired, queue>>
sceneVars == <<material, draw, acks>>
logVars == <<received, calls>>
vars == <<pc, frame, output, output_lock, poisoned, wpc, pending, windows,
          resizes, pool, sem, busy, acquired, queue, material, draw, acks,
          received, calls>>

(* ----------------------------------------------------------- conversions *)
\* window_size.into() for SwapchainCreateInfo::image_extent: [u32; 2]
ImageExtent(size) == [w |-> size[1], h |-> size[2]]
\* DmatexSize::Dim2D(window_size.into())
Dim2D(size) == [kind |-> "Dim2D", x |-> size[1], y |-> size[2]]
\* cme_info.image().extent(): the extent of an image of a Dim2D swapchain
DmatexExtent(dsize) == [w |-> dsize.x, h |-> dsize.y]

\* mutant of MkOutput: the remote swapchain of the previous resume is kept
MkOutputStaleRemote(w, size) ==
    [ _window |-> w,
      swapchain |-> [id |-> w, image_extent |-> ImageExtent(size)],
      swap_images |-> [i \in 1..MinImageCount |-> [swapchain |-> w, index |-> i - 1]],
      cme_swapchain |-> [id |-> w - 1, size |-> Dim2D(size)] ]

\* struct Output, as resumed() builds it for window w of inner size `size`
MkOutput(w, size) ==
    [ _window |-> w,
      swapchain |-> [id |-> w, image_extent |-> ImageExtent(size)],
      swap_images |-> [i \in 1..MinImageCount |-> [swapchain |-> w, index |-> i - 1]],
      cme_swapchain |-> [id |-> w, size |-> Dim2D(size)] ]

NoLocals ==
    [ builder |-> None, way_acquire_sema |-> None, way_release_sema |-> None,
      cme_info |-> None, way_info |-> None, cmd_buff |-> None,
      res |-> None, cb |-> None, submit_info |-> None ]

NoCalls ==
    [ prepare |-> 0, acquire |-> 0, record |-> 0, submit |-> 0, present |-> 0,
      publish |-> 0, draw |-> 0 ]

Init ==
    /\ pc = "wait"
    /\ frame = NoLocals
    /\ output = None
    /\ output_lock = "none"
    /\ poisoned = FALSE
    /\ wpc = "idle"
    /\ pending = None
    /\ windows = <<>>
    /\ resizes = 0
    /\ pool = {}
    /\ sem = <<>>
    /\ busy = {}
    /\ acquired = None
    /\ queue = <<>>
    /\ material = None
    /\ draw = None
    /\ acks = 0
    /\ received = [Ping |-> 0, Idle |-> 0, Frame |-> 0, WithOutput |-> 0]
    /\ calls = NoCalls

\* the process is running: run_app has neither returned nor unwound
Alive == wpc \in {"idle", "install"}
Events == received.Ping + received.Idle + received.Frame

(* ------------------------------------------------------- stardust_loop *)
\* mutant of RecvPing: the arm lacks its `continue` and falls through to the
\* Frame path
RecvPingFallsThrough ==
    /\ pc = "wait" /\ Alive /\ Events < MaxEvents
    /\ acks' = acks + 1
    /\ received' = [received EXCEPT !.Ping = @ + 1]
    /\ pc' = "lock"
    /\ UNCHANGED <<frame, lockVars, winVars, semVars, gpuVars, material, draw, calls>>

\* Some(RootEvent::Ping { response }) => { response.send_ok(()); continue; }
RecvPing ==
    /\ pc = "wait" /\ Alive /\ Events < MaxEvents
    /\ acks' = acks + 1
    /\ received' = [received EXCEPT !.Ping = @ + 1]
    /\ UNCHANGED <<tickVars, lockVars, winVars, semVars, gpuVars, material, draw, calls>>

\* mutant of RecvIdle: the SaveState arm answers the request
RecvIdleAcks ==
    /\ pc = "wait" /\ Alive /\ Events < MaxEvents
    /\ acks' = acks + 1
    /\ received' = [received EXCEPT !.Idle = @ + 1]
    /\ UNCHANGED <<tickVars, lockVars, winVars, semVars, gpuVars, material, draw, calls>>

\* None | Some(RootEvent::SaveState { response: _ }) => { continue; }
RecvIdle ==
    /\ pc = "wait" /\ Alive /\ Events < MaxEvents
    /\ received' = [received EXCEPT !.Idle = @ + 1]
    /\ UNCHANGED <<tickVars, lockVars, winVars, semVars, gpuVars, sceneVars, calls>>

\* Some(RootEvent::Frame { info }) => info
RecvFrame ==
    /\ pc = "wait" /\ Alive /\ Events < MaxEvents
    /\ pc' = "lock"
    /\ received' = [received EXCEPT !.Frame = @ + 1]
    /\ UNCHANGED <<frame, lockVars, winVars, semVars, gpuVars, sceneVars, calls>>

\* mutant of PipelineOrder: the local image is acquired before the remote one
\* is prepared
PipelineOrderAcquireFirst ==
    << "builder", "sema", "acquire", "prepare", "record", "cme_submit",
       "qsubmit", "present", "wait_idle", "submit_return", "publish", "draw" >>

\* the statements of one Frame iteration after the Output was found, in
\* program order
PipelineOrder ==
    << "builder", "sema", "prepare", "acquire", "record", "cme_submit",
       "qsubmit", "present", "wait_idle", "submit_return", "publish", "draw" >>

StepAfter(s) ==
    LET i == CHOOSE k \in 1..Len(PipelineOrder) : PipelineOrder[k] = s
    IN PipelineOrder[i + 1]

\* mutant of LockOutput: the Output is read and the guard dropped at once
LockOutputSnapshot ==
    /\ pc = "lock"
    /\ output_lock = "none"
    /\ \/ /\ output = None
          /\ pc' = "wait"
          /\ UNCHANGED received
       \/ /\ IsSome(output)
          /\ pc' = "builder"
          /\ received' = [received EXCEPT !.WithOutput = @ + 1]
    /\ UNCHANGED <<frame, lockVars, winVars, semVars, gpuVars, sceneVars, calls>>

\* mutant of LockOutput: the Output is unwrapped, so a missing Output panics
LockOutputUnwrapsNone ==
    /\ pc = "lock"
    /\ output_lock = "none"
    /\ \/ /\ output = None
          /\ pc' = "panicked"
          /\ poisoned' = TRUE
          /\ UNCHANGED <<output_lock, received>>
       \/ /\ IsSome(output)
          /\ output_lock' = "tick"
          /\ pc' = "builder"
          /\ received' = [received EXCEPT !.WithOutput = @ + 1]
          /\ UNCHANGED poisoned
    /\ UNCHANGED <<frame, output, winVars, semVars, gpuVars, sceneVars, calls>>

\* let output_lock = output.lock().unwrap();
\* let Some(output) = output_lock.as_ref() else { continue; };
\* The guard output_lock lives to the end of the iteration.
LockOutput ==
    /\ pc = "lock"
    /\ output_lock = "none"
    /\ \/ /\ output = None
          /\ pc' = "wait"
          /\ UNCHANGED <<output_lock, received>>
       \/ /\ IsSome(output)
          /\ output_lock' = "tick"
          /\ pc' = PipelineOrder[1]
          /\ received' = [received EXCEPT !.WithOutput = @ + 1]
    /\ UNCHANGED <<frame, output, poisoned, winVars, semVars, gpuVars, sceneVars, calls>>

\* AutoCommandBufferBuilder::primary(..).unwrap()
CreateBuilder ==
    /\ pc = "builder"
    /\ frame' = [frame EXCEPT !.builder = Some([commands |-> <<>>])]
    /\ pc' = StepAfter("builder")
    /\ UNCHANGED <<lockVars, winVars, semVars, gpuVars, sceneVars, logVars>>

\* Semaphore::from_pool: a free handle of the pool, or a new one
FromPool(free, created) == IF free # {} THEN free ELSE {created + 1}
Max(a, b) == IF a >= b THEN a ELSE b
FreshSem == [signals |-> 0, waits |-> 0]

\* let way_acquire_sema = Arc::new(Semaphore::from_pool(dev.clone()).unwrap());
\* let way_release_sema = Arc::new(Semaphore::from_pool(dev.clone()).unwrap());
TakeSemaphores ==
    /\ pc = "sema"
    /\ \E a \in FromPool(pool, Len(sem)) :
         \E r \in FromPool(pool \ {a}, Max(Len(sem), a)) :
            /\ frame' = [frame EXCEPT !.way_acquire_sema = Some(a),
                                      !.way_release_sema = Some(r)]
            /\ pool' = pool \ {a, r}
            /\ sem' = [h \in 1..Max(Len(sem), Max(a, r)) |->
                         IF h \in {a, r} THEN FreshSem ELSE sem[h]]
    /\ pc' = StepAfter("sema")
    /\ UNCHANGED <<lockVars, winVars, busy, gpuVars, sceneVars, logVars>>

\* prepare_next_image(): the remote swapchain advances to its next image
NextDmatex == (calls.prepare % Cardinality(DmatexIds)) + 1

\* let cme_info = output.cme_swapchain.lock().unwrap().prepare_next_image();
PrepareNextImage ==
    /\ pc = "prepare"
    /\ frame' = [frame EXCEPT !.cme_info =
                   Some([ dmatex_id |-> NextDmatex,
                          swapchain |-> Unwrap(output).cme_swapchain.id,
                          extent |-> DmatexExtent(Unwrap(output).cme_swapchain.size) ])]
    /\ calls' = [calls EXCEPT !.prepare = @ + 1]
    /\ pc' = StepAfter("prepare")
    /\ UNCHANGED <<lockVars, winVars, semVars, gpuVars, sceneVars, received>>

\* output.swapchain.acquire_next_image(&AcquireNextImageInfo {
\*     semaphore: Some(way_acquire_sema.clone()), .. }).unwrap()   (Ok case)
AcquireNextImage ==
    /\ pc = "acquire"
    /\ LET a == Unwrap(frame.way_acquire_sema) IN
       \E i \in 0..(MinImageCount - 1) :
          /\ frame' = [frame EXCEPT !.way_info = Some([image_index |-> i])]
          /\ sem' = [sem EXCEPT ![a].signals = @ + 1]
          /\ busy' = busy \cup {a}
          /\ acquired' = Some([ swapchain |-> Unwrap(output).swapchain.id,
                                 image_index |-> i, semaphore |-> a ])
    /\ calls' = [calls EXCEPT !.acquire = @ + 1]
    /\ pc' = StepAfter("acquire")
    /\ UNCHANGED <<lockVars, winVars, pool, queue, sceneVars, received>>

\* mutant of WayImage: the first swapchain image, whatever was acquired
WayImageFirst == Unwrap(output).swap_images[1]

\* let way_image = output.swap_images[way_info.image_index as usize].clone();
WayImage == Unwrap(output).swap_images[Unwrap(frame.way_info).image_index + 1]

\* builder.blit_image(BlitImageInfo::images(cme_info.image(), way_image)).unwrap();
\* let cmd_buff = builder.build().unwrap();
RecordBlit ==
    /\ pc = "record"
    /\ frame' = [frame EXCEPT
                   !.builder = None,
                   !.cmd_buff = Some([ op |-> "blit_image",
                                       src |-> [ dmatex_id |-> Unwrap(frame.cme_info).dmatex_id,
                                                 swapchain |-> Unwrap(frame.cme_info).swapchain ],
                                       dst |-> WayImage ])]
    /\ calls' = [calls EXCEPT !.record = @ + 1]
    /\ pc' = StepAfter("record")
    /\ UNCHANGED <<lockVars, winVars, semVars, gpuVars, sceneVars, received>>

\* a semaphore of the bridge / of the remote swapchain, as a submission names it
WaySem(h) == [owner |-> "way", id |-> h, role |-> "binary"]
CmeSem(id, role) == [owner |-> "cme", id |-> id, role |-> role]

\* let res = cme_info.image().extent();
\* cme_info.submit(&dev, &queue, |wait, mut queue, release| ..): the remote
\* swapchain calls the closure with its wait and release sync-points
CmeSubmit ==
    /\ pc = "cme_submit"
    /\ frame' = [frame EXCEPT
                   !.res = Some(Unwrap(frame.cme_info).extent),
                   !.cb = Some([ wait |-> CmeSem(Unwrap(frame.cme_info).dmatex_id, "wait"),
                                 release |-> CmeSem(Unwrap(frame.cme_info).dmatex_id, "release") ])]
    /\ pc' = StepAfter("cme_submit")
    /\ UNCHANGED <<lockVars, winVars, semVars, gpuVars, sceneVars, logVars>>

\* mutant of SubmitInfo: the two bridge semaphores exchanged
SubmitInfoSwapped ==
    [ wait_semaphores |-> << Unwrap(frame.cb).wait,
                             WaySem(Unwrap(frame.way_release_sema)) >>,
      command_buffers |-> << Unwrap(frame.cmd_buff) >>,
      signal_semaphores |-> << Unwrap(frame.cb).release,
                               WaySem(Unwrap(frame.way_acquire_sema)) >> ]

\* the SubmitInfo of the closure
SubmitInfo ==
    [ wait_semaphores |-> << Unwrap(frame.cb).wait,
                             WaySem(Unwrap(frame.way_acquire_sema)) >>,
      command_buffers |-> << Unwrap(frame.cmd_buff) >>,
      signal_semaphores |-> << Unwrap(frame.cb).release,
                               WaySem(Unwrap(frame.way_release_sema)) >> ]

\* queue.submit(&[SubmitInfo { .. }], None).unwrap();   (Ok case)
QueueSubmit ==
    /\ pc = "qsubmit"
    /\ LET a == Unwrap(frame.way_acquire_sema)
           r == Unwrap(frame.way_release_sema) IN
       /\ queue' = Append(queue, [op |-> "submit", info |-> SubmitInfo])
       /\ sem' = [sem EXCEPT ![a].waits = @ + 1, ![r].signals = @ + 1]
       /\ busy' = busy \cup {a, r}
    /\ frame' = [frame EXCEPT !.cmd_buff = None]
    /\ calls' = [calls EXCEPT !.submit = @ + 1]
    /\ pc' = StepAfter("qsubmit")
    /\ UNCHANGED <<lockVars, winVars, pool, acquired, sceneVars, received>>

\* mutant of PresentInfo: the present waits on the acquire semaphore
PresentInfoWaitsAcquire ==
    [ wait_semaphores |-> << WaySem(Unwrap(frame.way_acquire_sema)) >>,
      swapchain |-> Unwrap(output).swapchain.id,
      image_index |-> Unwrap(frame.way_info).image_index ]

\* the PresentInfo of the closure
PresentInfo ==
    [ wait_semaphores |-> << WaySem(Unwrap(frame.way_release_sema)) >>,
      swapchain |-> Unwrap(output).swapchain.id,
      image_index |-> Unwrap(frame.way_info).image_index ]

\* _ = queue.present(&PresentInfo { .. }).unwrap();   (Ok case)
Present ==
    /\ pc = "present"
    /\ LET r == Unwrap(frame.way_release_sema) IN
       /\ queue' = Append(queue, [op |-> "present", info |-> PresentInfo])
       /\ acquired' = None
       /\ sem' = [sem EXCEPT ![r].waits = @ + 1]
       /\ busy' = busy \cup {r}
    /\ calls' = [calls EXCEPT !.present = @ + 1]
    /\ pc' = StepAfter("present")
    /\ UNCHANGED <<frame, lockVars, winVars, pool, sceneVars, received>>

\* mutant of WaitIdle: the closure returns without waiting for the queue
WaitIdleNoWait ==
    /\ pc = "wait_idle"
    /\ pc' = "submit_return"
    /\ UNCHANGED <<frame, lockVars, winVars, semVars, gpuVars, sceneVars, logVars>>

\* queue.wait_idle().unwrap();   (Ok case: returns once the queue is idle)
WaitIdle ==
    /\ pc = "wait_idle"
    /\ queue = <<>>
    /\ pc' = StepAfter("wait_idle")
    /\ UNCHANGED <<frame, lockVars, winVars, semVars, gpuVars, sceneVars, logVars>>

\* the SubmitDescriptor of the remote swapchain's n-th submission: its image
\* and the next two points of the image's timeline
SubmitDescriptor(cme_info, n) ==
    [ dmatex_id |-> cme_info.dmatex_id,
      acquire_point |-> 2 * n - 1,
      release_point |-> 2 * n ]

\* the closure returns and cme_info.submit returns the descriptor
SubmitReturn ==
    /\ pc = "submit_return"
    /\ frame' = [frame EXCEPT
                   !.cb = None,
                   !.submit_info = Some(SubmitDescriptor(Unwrap(frame.cme_info), calls.submit))]
    /\ pc' = StepAfter("submit_return")
    /\ UNCHANGED <<lockVars, winVars, semVars, gpuVars, sceneVars, logVars>>

\* MaterialParameter::Dmatex(DmatexSubmitInfo { dmatex_id: submit_info.dmatex_id,
\*     acquire_point: submit_info.release_point,
\*     release_point: submit_info.release_point })
DmatexSubmitInfo(submit_info) ==
    [ dmatex_id |-> submit_info.dmatex_id,
      acquire_point |-> submit_info.release_point,
      release_point |-> submit_info.release_point ]

\* panel.set_material_parameter("diffuse", ..).unwrap();   (Ok case)
PublishMaterial ==
    /\ pc = "publish"
    /\ material' = Some(DmatexSubmitInfo(Unwrap(frame.submit_info)))
    /\ calls' = [calls EXCEPT !.publish = @ + 1]
    /\ pc' = StepAfter("publish")
    /\ UNCHANGED <<frame, lockVars, winVars, semVars, gpuVars, draw, acks, received>>

\* the semaphores the iteration holds
HeldSemaphores ==
    { h \in 1..Len(sem) :
        frame.way_acquire_sema = Some(h) \/ frame.way_release_sema = Some(h) }

\* mutant of RequestDraw: the guard output_lock outlives the iteration
RequestDrawKeepsLock ==
    /\ pc = "draw"
    /\ draw' = Some([ info |-> Unwrap(frame.submit_info),
                      res |-> Unwrap(frame.res) ])
    /\ calls' = [calls EXCEPT !.draw = @ + 1]
    /\ pool' = pool \cup HeldSemaphores
    /\ frame' = NoLocals
    /\ pc' = "wait"
    /\ UNCHANGED <<output, lockVars, winVars, sem, busy, gpuVars, material, acks, received>>

\* camera.request_draw(submit_info, &[View { .. }]).unwrap();   (Ok case)
\* and the end of the iteration: the locals are dropped (the semaphores go
\* back to the pool, the guard output_lock unlocks the mutex)
RequestDraw ==
    /\ pc = "draw"
    /\ draw' = Some([ info |-> Unwrap(frame.submit_info),
                      res |-> Unwrap(frame.res) ])
    /\ calls' = [calls EXCEPT !.draw = @ + 1]
    /\ pool' = pool \cup HeldSemaphores
    /\ frame' = NoLocals
    /\ output_lock' = "none"
    /\ pc' = "wait"
    /\ UNCHANGED <<output, poisoned, winVars, sem, busy, gpuVars, material, acks, received>>

\* the statements whose Result the iteration unwraps
Fallible ==
    { "builder", "sema", "acquire", "record", "qsubmit", "present",
      "wait_idle", "publish", "draw" }

\* .unwrap() on an Err: the task panics; unwinding drops the locals (the
\* semaphores go back to the pool) and the guard, which poisons the mutex
TickPanic ==
    /\ pc \in Fallible
    /\ pc' = "panicked"
    /\ pool' = pool \cup HeldSemaphores
    /\ frame' = NoLocals
    /\ output_lock' = "none"
    /\ poisoned' = TRUE
    /\ UNCHANGED <<output, winVars, sem, busy, gpuVars, sceneVars, logVars>>

(* ------------------------------------------------------------- the GPU *)
\* queue submissions handed to the queue and not yet complete
InFlight == Cardinality({i \in 1..Len(queue) : queue[i].op = "submit"})

\* the queue and the presentation engine finish what was handed to them
GpuComplete ==
    /\ queue # <<>> \/ busy # {}
    /\ queue' = <<>>
    /\ busy' = {}
    /\ UNCHANGED <<tickVars, lockVars, winVars, pool, sem, acquired, sceneVars, logVars>>

(* ------------------------------------------------------------ WinitApp *)
\* resumed(), up to the lock: a new window, its swapchain and images, and a
\* remote swapchain of the window's size
Resumed ==
    /\ wpc = "idle"
    /\ Len(windows) < MaxResumes
    /\ \E size \in Sizes :
         /\ windows' = Append(windows, Some(size))
         /\ pending' = Some(MkOutput(Len(windows) + 1, size))
    /\ wpc' = "install"
    /\ UNCHANGED <<tickVars, lockVars, resizes, semVars, gpuVars, sceneVars, logVars>>

\* dropping an Output destroys its window (the last Arc<Window>)
Destroyed(out) ==
    IF IsSome(out) THEN [windows EXCEPT ![Unwrap(out)._window] = None] ELSE windows

\* mutant of InstallOutput: the Output is replaced without taking the lock
InstallOutputNoLock ==
    /\ wpc = "install"
    /\ \/ /\ ~poisoned
          /\ output' = pending
          /\ windows' = Destroyed(output)
          /\ wpc' = "idle"
       \/ /\ poisoned
          /\ wpc' = "panicked"
          /\ windows' = Destroyed(pending)
          /\ UNCHANGED output
    /\ pending' = None
    /\ UNCHANGED <<tickVars, output_lock, poisoned, resizes, semVars,
                   gpuVars, sceneVars, logVars>>

\* self.output.lock().unwrap().replace(Output { .. });
\* The lock is taken, the Output replaced, the previous one dropped and the
\* lock released in this one statement; a poisoned mutex panics the unwrap.
InstallOutput ==
    /\ wpc = "install"
    /\ output_lock = "none"
    /\ \/ /\ ~poisoned
          /\ output' = pending
          /\ windows' = Destroyed(output)
          /\ wpc' = "idle"
       \/ /\ poisoned
          /\ wpc' = "panicked"
          /\ windows' = Destroyed(pending)
          /\ UNCHANGED output
    /\ pending' = None
    /\ UNCHANGED <<tickVars, output_lock, poisoned, resizes, semVars,
                   gpuVars, sceneVars, logVars>>

\* WindowEvent::Resized(_physical_size) => {}
WindowResized ==
    /\ wpc = "idle"
    /\ IsSome(output)
    /\ resizes < MaxResizes
    /\ \E size \in Sizes \ {Unwrap(windows[Unwrap(output)._window])} :
         windows' = [windows EXCEPT ![Unwrap(output)._window] = Some(size)]
    /\ resizes' = resizes + 1
    /\ UNCHANGED <<tickVars, lockVars, wpc, pending, semVars, gpuVars, sceneVars, logVars>>

\* WindowEvent::CloseRequested | WindowEvent::Destroyed => event_loop.exit()
WindowClosed ==
    /\ wpc = "idle"
    /\ IsSome(output)
    /\ wpc' = "exited"
    /\ UNCHANGED <<tickVars, lockVars, pending, windows, resizes, semVars,
                   gpuVars, sceneVars, logVars>>

\* main() after run_app has returned (or unwound): the closure drops WinitApp
\* and with it one Arc of the Output; the runtime is dropped when main ends,
\* which waits for the worker to leave its current poll and drops the task
\* at its await (a panicked task was dropped when it panicked), releasing the
\* other Arc.  The Output is dropped then; nothing waits for the device.
Teardown ==
    /\ wpc \in {"exited", "panicked"}
    /\ pc \in {"wait", "panicked"}
    /\ IsSome(output)
    /\ output' = None
    /\ windows' = Destroyed(output)
    /\ pc' = IF pc = "wait" THEN "stopped" ELSE pc
    /\ UNCHANGED <<frame, output_lock, poisoned, wpc, pending, resizes, semVars,
                   gpuVars, sceneVars, logVars>>

Next ==
    \/ RecvPing \/ RecvIdle \/ RecvFrame \/ LockOutput
    \/ CreateBuilder \/ TakeSemaphores \/ PrepareNextImage \/ AcquireNextImage
    \/ RecordBlit \/ CmeSubmit \/ QueueSubmit \/ Present \/ WaitIdle
    \/ SubmitReturn \/ PublishMaterial \/ RequestDraw \/ TickPanic
    \/ GpuComplete
    \/ Resumed \/ InstallOutput \/ WindowResized \/ WindowClosed \/ Teardown

Spec == Init /\ [][Next]_vars

\* one statement of a Frame iteration that returns Ok
TickStep ==
    \/ LockOutput
    \/ CreateBuilder \/ TakeSemaphores \/ PrepareNextImage \/ AcquireNextImage
    \/ RecordBlit \/ CmeSubmit \/ QueueSubmit \/ Present \/ WaitIdle
    \/ SubmitReturn \/ PublishMaterial \/ RequestDraw

\* the program when every unwrapped call returns Ok
NextOk ==
    \/ RecvPing \/ RecvIdle \/ RecvFrame
    \/ TickStep
    \/ GpuComplete
    \/ Resumed \/ InstallOutput \/ WindowResized \/ WindowClosed \/ Teardown

\* The task is polled by a runtime worker until it awaits, the window thread
\* blocked in lock() runs when the mutex is free, and the device executes
\* what was submitted.  Events arrive when the compositor and the platform
\* send them: no fairness.
SpecLive ==
    /\ Init /\ [][NextOk]_vars
    /\ WF_vars(TickStep)
    /\ WF_vars(InstallOutput)
    /\ WF_vars(GpuComplete)

(* ================================================================ claims *)
Range(q) == {q[i] : i \in 1..Len(q)}
InPipeline == pc \in Range(PipelineOrder)
SubmitOps == {i \in 1..Len(queue) : queue[i].op = "submit"}

(* C1: handling a Ping event sends exactly one acknowledgment and does      *)
(* nothing else: no prepare, acquire, record, submit, present, publication  *)
(* or draw, the Output, its lock and the swapchain state are as before, and *)
(* the loop is back at its wait.                                            *)
C1_PingOnlyAcknowledges ==
    [][ received'.Ping = received.Ping + 1 =>
          /\ acks' = acks + 1
          /\ pc' = "wait"
          /\ UNCHANGED <<calls, frame, output, output_lock, poisoned, acquired,
                         queue, pool, sem, busy, material, draw>> ]_vars

\* a Ping acknowledged after a completed Render tick, with an Output
C1_Witness ==
    /\ received.Ping = 1 /\ acks = 1
    /\ IsSome(output) /\ calls.present = 1 /\ pc = "wait"

(* C2: once the loop is no longer inside an iteration, the number of full   *)
(* copy/submit/present cycles equals the number of Render events received   *)
(* while an Output exists (none for a Render that found no Output), and the *)
(* number of acknowledgments equals the number of Ping events.              *)
C2_CyclesMatchRenders ==
    pc \in {"wait", "panicked"} =>
        /\ calls.record = received.WithOutput
        /\ calls.submit = received.WithOutput
        /\ calls.present = received.WithOutput
        /\ acks = received.Ping

(* C3: the steps of the Render ticks happen in the order prepare, acquire,  *)
(* record, submit, present, publish, draw: the k-th call of a step comes    *)
(* after the k-th call of the step before it and before the (k+1)-th call   *)
(* of the first step.                                                       *)
C3_StepsInOrder ==
    /\ calls.prepare >= calls.acquire
    /\ calls.acquire >= calls.record
    /\ calls.record >= calls.submit
    /\ calls.submit >= calls.present
    /\ calls.present >= calls.publish
    /\ calls.publish >= calls.draw
    /\ calls.prepare <= calls.draw + 1

\* the second Render tick has gone through all its steps but the draw
C3_Witness == pc = "draw" /\ calls.publish = 2 /\ calls.draw = 1

(* C4: once a Render tick has published, the panel material carries the id, *)
(* the acquire point and the release point of the SubmitDescriptor that the *)
(* remote swapchain's submit returned in this tick.                         *)
C4_PublishedIsDescriptor ==
    pc = "draw" =>
        LET d == Unwrap(frame.submit_info) IN
        /\ IsSome(material)
        /\ Unwrap(material).dmatex_id = d.dmatex_id
        /\ Unwrap(material).acquire_point = d.acquire_point
        /\ Unwrap(material).release_point = d.release_point

C6_TickUsesOutputOfWindowSize ==
    [][ received'.WithOutput = received.WithOutput + 1 =>
          LET out == Unwrap(output)
              size == Unwrap(windows[out._window]) IN
          /\ out.swapchain.image_extent = ImageExtent(size)
          /\ out.cme_swapchain.size = Dim2D(size) ]_vars

(* C7: at most one frame is in flight: never more than one submission is    *)
(* outstanding on the queue, and none is outstanding while a tick is at any *)
(* step up to its own submission (remote prepare and local acquire          *)
(* included).                                                               *)
C7_OneFrameInFlight ==
    /\ InFlight <= 1
    /\ pc \in {"builder", "sema", "prepare", "acquire", "record", "cme_submit",
               "qsubmit"} => InFlight = 0

\* the second frame is in flight
C7_Witness == InFlight = 1 /\ calls.submit = 2

(* C8: every bridge semaphore is signaled at most once and waited on at     *)
(* most once per use, and a semaphore back in the pool has had its signal   *)
(* waited on exactly once and has no operation outstanding.                 *)
C8_SemaphoreLifetime ==
    /\ \A h \in 1..Len(sem) : sem[h].signals <= 1 /\ sem[h].waits <= 1
    /\ \A h \in pool : h \notin busy /\ sem[h].waits = sem[h].signals

(* C9: the blit's destination image and the presented image index are the   *)
(* image index that acquire_next_image returned in this same tick.          *)
C9_DestinationIsAcquired ==
    /\ [](IsSome(frame.cmd_buff) =>
            /\ IsSome(acquired)
            /\ calls.record = calls.acquire
            /\ Unwrap(frame.cmd_buff).dst =
                 [ swapchain |-> Unwrap(acquired).swapchain,
                   index |-> Unwrap(acquired).image_index ])
    /\ [](\A i \in SubmitOps : IsSome(acquired) =>
            queue[i].info.command_buffers[1].dst =
                 [ swapchain |-> Unwrap(acquired).swapchain,
                   index |-> Unwrap(acquired).image_index ])
    /\ [][ calls'.present = calls.present + 1 =>
             LET p == queue'[Len(queue')] IN
             /\ IsSome(acquired)
             /\ calls.acquire = calls'.present
             /\ p.op = "present"
             /\ p.info.swapchain = Unwrap(acquired).swapchain
             /\ p.info.image_index = Unwrap(acquired).image_index ]_vars

\* the second tick has acquired the other image than the first and recorded
C9_Witness ==
    /\ IsSome(frame.cmd_buff) /\ calls.acquire = 2
    /\ Unwrap(acquired).image_index = 1

(* C10: the queue submission of a Render tick waits on exactly the remote   *)
(* ready sync-point handed to the closure and this tick's acquire           *)
(* semaphore, signals exactly the remote release sync-point handed to the   *)
(* closure and this tick's copy-done semaphore, and is the only submission  *)
(* on the queue.                                                            *)
C10_SubmissionWaitAndSignalSets ==
    [][ calls'.submit = calls.submit + 1 =>
          LET s == queue'[Len(queue')] IN
          /\ s.op = "submit"
          /\ Cardinality({i \in 1..Len(queue') : queue'[i].op = "submit"}) = 1
          /\ Len(s.info.wait_semaphores) = 2
          /\ Range(s.info.wait_semaphores) =
               { Unwrap(frame.cb).wait, WaySem(Unwrap(frame.way_acquire_sema)) }
          /\ Len(s.info.signal_semaphores) = 2
          /\ Range(s.info.signal_semaphores) =
               { Unwrap(frame.cb).release, WaySem(Unwrap(frame.way_release_sema)) }
          /\ Unwrap(frame.way_acquire_sema) = Unwrap(acquired).semaphore
          /\ Unwrap(frame.way_acquire_sema) # Unwrap(frame.way_release_sema) ]_vars

\* the second tick's submission is on the queue
C10_Witness == SubmitOps # {} /\ calls.submit = 2 /\ pc = "present"


(* C11: every present waits on exactly the copy-done semaphore that this    *)
(* tick's copy submission signals, and not on the acquire semaphore; the    *)
(* submission of the tick has been handed to the queue before the present.  *)
C11_PresentWaitsCopyDone ==
    [][ calls'.present = calls.present + 1 =>
          LET p == queue'[Len(queue')]
              r == Unwrap(frame.way_release_sema) IN
          /\ p.op = "present"
          /\ p.info.wait_semaphores = << WaySem(r) >>
          /\ WaySem(Unwrap(frame.way_acquire_sema)) \notin Range(p.info.wait_semaphores)
          /\ sem[r].signals = 1 /\ sem[r].waits = 0
          /\ calls.submit = calls'.present ]_vars

\* the second tick's present is on the queue behind its submission
C11_Witness ==
    /\ calls.present = 2 /\ Len(queue) = 2
    /\ queue[1].op = "submit" /\ queue[2].op = "present"


(* C12: a Render tick that finds no Output is skipped without error: the    *)
(* loop goes back to its wait, has taken no semaphore, made no prepare,     *)
(* acquire, record, submit, present, publication or draw, holds no lock and *)
(* has poisoned nothing.                                                    *)
C12_NoOutputSkips ==
    [][ pc = "lock" /\ output = None /\ pc' # "lock" =>
          /\ pc' = "wait"
          /\ UNCHANGED <<calls, frame, output, output_lock, poisoned, pool, sem,
                         busy, acquired, queue, material, draw, acks>> ]_vars

\* a Render tick was skipped, and a later one has run the whole pipeline
C12_Witness ==
    /\ received.Frame = 2 /\ received.WithOutput = 1
    /\ calls.draw = 1 /\ pc = "wait"


(* C13: a Render tick is all-or-nothing: once the loop is no longer inside  *)
(* an iteration, every remote image that was prepared and every local image *)
(* that was acquired has reached present, and no image is left acquired.    *)
C13_TickAllOrNothing ==
    pc \in {"wait", "panicked"} =>
        /\ calls.prepare = calls.present
        /\ calls.acquire = calls.present
        /\ acquired = None

(* C14: when acquire_next_image fails (the surface is out of date), the     *)
(* tick is abandoned without side effects and without a crash: the loop is  *)
(* back at its wait, nothing was submitted, presented or published, and the *)
(* Output mutex is free and not poisoned, so that the next resume can       *)
(* install a new Output.                                                    *)
C14_AcquireFailureIsRecoverable ==
    [][ pc = "acquire" /\ pc' # "acquire" /\ calls'.acquire = calls.acquire =>
          /\ pc' = "wait"
          /\ output_lock' = "none"
          /\ ~poisoned'
          /\ UNCHANGED <<queue, material, draw>> ]_vars


(* C15: on process shutdown the GPU queue has been drained before an        *)
(* Output-owned resource is destroyed: whenever the Output is dropped at    *)
(* teardown, no submitted work that references it is still outstanding.     *)
C15_ShutdownDrainsQueue ==
    [][ IsSome(output) /\ output' = None => queue = <<>> ]_vars


(* C16: handling a SaveState event, or a wake-up with no event, has no side *)
(* effect: no acknowledgment is sent, the Output lock is not taken, nothing *)
(* is prepared, acquired, submitted, presented, published or drawn, the     *)
(* Output and the swapchain state are as before, and the loop is back at    *)
(* its wait.                                                                *)
C16_IdleHasNoSideEffects ==
    [][ received'.Idle = received.Idle + 1 =>
          /\ pc' = "wait"
          /\ UNCHANGED <<acks, calls, frame, output, output_lock, poisoned, acquired,
                         queue, pool, sem, busy, material, draw>> ]_vars

\* a SaveState handled after a completed Render tick, with an Output
C16_Witness ==
    /\ received.Idle = 1 /\ acks = 0
    /\ IsSome(output) /\ calls.draw = 1 /\ pc = "wait"

(* C17: whenever the tick loop is suspended awaiting the next event, it     *)
(* does not hold the Output mutex, whichever path the last iteration took.  *)
C17_NoLockAcrossAwait ==
    pc = "wait" => output_lock # "tick"

\* suspended after a completed Render, a Ping and a SaveState
C17_Witness ==
    /\ pc = "wait" /\ calls.draw = 1
    /\ received.Ping = 1 /\ received.Idle = 1


\* the parts of an Output come from one resume and have one size
OneCreation(o) ==
    /\ o.swapchain.id = o._window
    /\ o.cme_swapchain.id = o._window
    /\ Len(o.swap_images) = MinImageCount
    /\ \A i \in 1..Len(o.swap_images) : o.swap_images[i].swapchain = o._window
    /\ DmatexExtent(o.cme_swapchain.size) = o.swapchain.image_extent

(* C18: the Output is written only by the window context, with the Output   *)
(* lock free for it to take, and as a whole: a step that puts a new Output  *)
(* in place is the install of resumed() and stores the Output that resume   *)
(* built; every Output in place has its local swapchain, its swap images    *)
(* and its remote swapchain from one resume and of one size; and while the  *)
(* tick loop holds the lock the Output does not change, and the remote      *)
(* image it prepared and the local image it acquired are of that Output.    *)
C18_OutputReplacedWholesale ==
    [][ /\ (output' # output /\ IsSome(output')) =>
              /\ wpc = "install" /\ output_lock = "none"
              /\ output' = pending
        /\ IsSome(output') => OneCreation(Unwrap(output'))
        /\ (output_lock = "tick" /\ output_lock' = "tick") => output' = output
        /\ (output_lock' = "tick" /\ IsSome(frame'.cme_info)) =>
              Unwrap(frame'.cme_info).swapchain = Unwrap(output')._window
        /\ (output_lock' = "tick" /\ IsSome(acquired')) =>
              Unwrap(acquired').swapchain = Unwrap(output')._window ]_vars

\* a tick that copies between the images of the second Output
C18_Witness ==
    /\ IsSome(output) /\ Unwrap(output)._window = 2
    /\ output_lock = "tick"
    /\ IsSome(frame.cme_info) /\ IsSome(acquired)


(* C19: under any interleaving of the two contexts, resumed() replaces the  *)
(* Output (and so drops the previous one) only when no frame of the tick    *)
(* loop is between its acquire and the end of its queue idle wait: in the   *)
(* step that replaces an existing Output no image is acquired, no submitted *)
(* work is outstanding and the tick loop is not inside a Render iteration.  *)
C19_NoReplacementDuringFrame ==
    [][ (IsSome(output) /\ IsSome(output') /\ output' # output) =>
          /\ acquired = None
          /\ queue = <<>>
          /\ ~InPipeline ]_vars

\* a resume waits for the lock while a frame's copy is outstanding
C19_Witness ==
    /\ wpc = "install" /\ IsSome(output) /\ IsSome(pending)
    /\ pc = "wait_idle" /\ queue # <<>>


(* C20: under weak fairness of the tick loop, the window context and the    *)
(* device, and with every call returning Ok, nothing blocks for ever on the *)
(* Output mutex: the k-th Render tick that found an Output leads to k       *)
(* presents, publications and draws with the loop back at its wait and the  *)
(* mutex released; every Ping received has been acknowledged; and a resume  *)
(* waiting to install the Output of window w leads to that Output being     *)
(* installed.  (The remote swapchain's own mutex is locked only by the tick *)
(* loop, inside prepare_next_image.)                                        *)
C20_NoDeadlock ==
    /\ \A k \in 1..MaxEvents :
          (received.WithOutput = k /\ InPipeline) ~>
              /\ calls.present >= k /\ calls.publish >= k /\ calls.draw >= k
              /\ pc = "wait" /\ output_lock = "none"
    /\ [](acks = received.Ping)
    /\ \A w \in 1..MaxResumes :
          (wpc = "install" /\ Len(windows) = w) ~>
              (wpc = "idle" /\ IsSome(output) /\ Unwrap(output)._window = w)

\* a second Output installed, two Render ticks completed and a Ping answered
C20_Witness ==
    /\ IsSome(output) /\ Unwrap(output)._window = 2 /\ wpc = "idle"
    /\ calls.publish = 2 /\ pc = "wait" /\ acks = 1

====
